---- MODULE Spec2Model ----
(***************************************************************************)
(* Model of the dispersion-trading backtester: the RiskManager             *)
(* (src/backtester/risk_manager.py) and the BacktestEngine day-loop        *)
(* (src/backtester/engine.py).                                             *)
(*                                                                         *)
(* Money is in whole dollars.  A ratio the code holds in a float is held   *)
(* as an exact fraction [num, den] with den > 0; a percentage parameter    *)
(* (0.15) is held as an integer number of percent (15).                    *)
(***************************************************************************)
EXTENDS Integers, Sequences, FiniteSets, TLC

\* ------------------------------------------------------------------------
\* Bounds of the model
\* ------------------------------------------------------------------------
MaxUpdates == 6
MaxGap == 3
\* number of trading days of the calendar that the backtest runs over
MaxDays == 8

\* ------------------------------------------------------------------------
\* Configuration (risk_management section of the config).  initial_cash and
\* max_drawdown_pct are those of test_drawdown_recovery.py; recovery_days is
\* a configured 3 days, so that a cooling period ends within the bounds; the
\* others are the defaults of RiskManager.__init__.
\* ------------------------------------------------------------------------
None == -2000000000
initial_cash == 1000000
\* the initial cash of the backtests that the day loop is run with: that of
\* the tests, and a small account
AccountSizes == {100, initial_cash}
max_drawdown_pct == 15
recovery_days == 3
recovery_pct == 50
stop_loss_pct == 15
max_position_risk_pct == 5
max_portfolio_risk_pct == 20
long_short_balance_factor == 90
max_long_short_ratio == 110
recovery_scaling_factor == 50
position_sizing_method == "equal_risk"
\* options section of the config: the model the engine asks for
pricing_model == "black_scholes"
\* the sizing methods a config may name: the two the code knows and another
SizingMethods == {"equal_risk", "kelly", "fixed_fraction"}
\* the 0.01 substituted for a failed or invalid price, in cents
FallbackPrice == 1
\* the floats that are not numbers of cents
NaN == -1999999999
Infinity == 2000000000

\* universe: the index, and the components in descending order of index weight
index_ticker == "SPY"
component_tickers == <<"AAPL", "XOM">>
component_weights == [t \in {"AAPL", "XOM"} |-> IF t = "AAPL" THEN 3 ELSE 2]

\* market data: the dates that every price file has in common (_load_data
\* lines 143-156), and the adjusted close in cents.  The file of AAPL has
\* the value inf on date 40: dropna (line 128) keeps the row, and round()
\* of the price raises OverflowError
Calendar == <<1, 3, 31, 33, 35, 38, 40, 47, 48>>
trading_dates == SubSeq(Calendar, 1, MaxDays)
Adjusted(ticker, date) ==
    IF ticker = "SPY"
    THEN (IF date = 31 THEN 40012
          ELSE IF date = 33 THEN 40010
          ELSE IF date >= 45 THEN 39997
          ELSE 40000)
    ELSE IF ticker = "AAPL"
    THEN (IF date = 31 THEN 15001 ELSE IF date = 40 THEN Infinity ELSE 15000)
    ELSE (IF date = 33 THEN 10002
          ELSE IF date >= 45 THEN 9990
          ELSE 10000)
\* option prices (in cents) a sizing request may carry
OptionPrices == {100, 400}
Signals == {"ENTER_DISPERSION", "ENTER_REVERSE_DISPERSION", "EXIT", "HOLD"}

\* inputs of the trade balance check when it is applied directly, in dollars
LongExposures == {0, 95000, 110000, 120000}
ShortExposures == {-100000, 0, 100000}

\* inputs of the position sizing when it is applied directly: option prices
\* in cents and allocatable values in dollars
SizingPrices == {100, 400, 60000}
AllocatableValues == {0, 10000, 100000, 1000000}

\* portfolio values fed to the risk manager when it is driven directly; the
\* negative one is an account whose short options cost more than its cash
Values == {-100000, 450000, 850000, 935000, 1000000, 1100000, 1200000}

VARIABLES risk_manager, current_date, within_limits, updates, trading_days_since_breach,
          current_cash, positions, trade_history, portfolio_history,
          current_portfolio_value, signals, aborted, quote, selection, valuation,
          pair

rm_vars == <<risk_manager, current_date, within_limits, updates, trading_days_since_breach>>
engine_vars == <<current_cash, positions, trade_history, portfolio_history,
                 current_portfolio_value, signals, aborted>>
pricer_vars == <<quote, valuation>>
calendar_vars == <<selection>>
pair_vars == <<pair>>
vars == <<rm_vars, engine_vars, pricer_vars, calendar_vars, pair_vars>>

\* ------------------------------------------------------------------------
\* Exact fractions
\* ------------------------------------------------------------------------
Frac(n, d) == [num |-> n, den |-> d]
FracZero == Frac(0, 1)
\* f > pct/100
FracGtPct(f, pct) == f.num * 100 > pct * f.den
\* f < pct/100
FracLtPct(f, pct) == f.num * 100 < pct * f.den
Max(a, b) == IF a >= b THEN a ELSE b

\* ------------------------------------------------------------------------
\* RiskManager
\* ------------------------------------------------------------------------
RiskManagerInit(enabled) ==
    [ risk_enabled |-> enabled,
      current_portfolio_value |-> None,
      peak_portfolio_value |-> None,
      current_drawdown |-> FracZero,
      initial_portfolio_value |-> initial_cash,
      max_drawdown_hit |-> FALSE,
      max_drawdown_date |-> None,
      recovery_target_value |-> Frac(None, 1),
      recovery_mode |-> FALSE,
      max_drawdown_date_value |-> None,
      hard_recovery_mode |-> FALSE,
      soft_recovery_mode |-> FALSE,
      position_sizing_method |-> position_sizing_method,
      recovery_pct |-> recovery_pct ]

\* lines 84-96: current value, high-water mark and drawdown
update_peak_and_drawdown(rm, value) ==
    LET peak == IF rm.peak_portfolio_value = None THEN value
                ELSE Max(rm.peak_portfolio_value, value)
    IN [rm EXCEPT !.current_portfolio_value = value,
                  !.peak_portfolio_value = peak,
                  !.current_drawdown = IF peak > 0 THEN Frac(peak - value, peak)
                                       ELSE FracZero]

\* line 100: (current_date - max_drawdown_date).days, calendar days
days_in_recovery(rm, date) ==
    IF date # None THEN date - rm.max_drawdown_date ELSE 0

\* mutant: recovery is left on reaching recovery_target_value
full_recovery_at_target(rm, value) ==
    100 * value >= rm.recovery_target_value.num

\* line 104: full recovery test
full_recovery(rm, value) == value >= rm.peak_portfolio_value

\* line 116: hard to soft after the cooling period
cooling_period_over(rm, date) ==
    rm.hard_recovery_mode /\ days_in_recovery(rm, date) >= recovery_days

\* mutant: the breach flag survives the exit
exit_recovery_keeps_flag(rm) ==
    [rm EXCEPT !.recovery_mode = FALSE,
               !.hard_recovery_mode = FALSE,
               !.soft_recovery_mode = FALSE,
               !.current_drawdown = FracZero]

\* lines 107-113: leave every recovery mode
exit_recovery(rm) ==
    [rm EXCEPT !.recovery_mode = FALSE,
               !.hard_recovery_mode = FALSE,
               !.soft_recovery_mode = FALSE,
               !.current_drawdown = FracZero,
               !.max_drawdown_hit = FALSE]

\* mutant: the hard flag is left set on the way to soft recovery
hard_to_soft_keeps_hard(rm) ==
    [rm EXCEPT !.soft_recovery_mode = TRUE]

\* lines 119-121
hard_to_soft(rm) ==
    [rm EXCEPT !.hard_recovery_mode = FALSE,
               !.soft_recovery_mode = TRUE]

\* line 101: the divisor of recovery_progress,
\* recovery_target_value - max_drawdown_date_value, in hundredths
recovery_span(rm) == rm.recovery_target_value.num - 100 * rm.max_drawdown_date_value

\* mutant: a fall below the value of the breach while in recovery is a new
\* breach
recovery_branch_breach_again(rm, value, date) ==
    IF value < rm.max_drawdown_date_value
    THEN [rm |-> [rm EXCEPT !.max_drawdown_date = date,
                            !.hard_recovery_mode = TRUE,
                            !.soft_recovery_mode = FALSE,
                            !.max_drawdown_date_value = value],
          ret |-> FALSE, raised |-> FALSE]
    ELSE IF full_recovery(rm, value)
    THEN [rm |-> exit_recovery(rm), ret |-> TRUE, raised |-> FALSE]
    ELSE IF cooling_period_over(rm, date)
    THEN [rm |-> hard_to_soft(rm), ret |-> TRUE, raised |-> FALSE]
    ELSE [rm |-> rm, ret |-> ~rm.hard_recovery_mode, raised |-> FALSE]

\* lines 99-129: the branch taken while recovery_mode is set; raised stands
\* for the ZeroDivisionError of line 101, which leaves the flags as they are
recovery_branch(rm, value, date) ==
    IF recovery_span(rm) = 0
    THEN [rm |-> rm, ret |-> FALSE, raised |-> TRUE]
    ELSE IF full_recovery(rm, value)
    THEN [rm |-> exit_recovery(rm), ret |-> TRUE, raised |-> FALSE]
    ELSE IF cooling_period_over(rm, date)
    THEN [rm |-> hard_to_soft(rm), ret |-> TRUE, raised |-> FALSE]
    ELSE [rm |-> rm, ret |-> ~rm.hard_recovery_mode, raised |-> FALSE]

\* mutant: the breach test is not strict
drawdown_breached_at_limit(rm) ==
    /\ rm.risk_enabled
    /\ ~FracLtPct(rm.current_drawdown, max_drawdown_pct)
    /\ ~rm.max_drawdown_hit

\* line 132: the breach test
drawdown_breached(rm) ==
    /\ rm.risk_enabled
    /\ FracGtPct(rm.current_drawdown, max_drawdown_pct)
    /\ ~rm.max_drawdown_hit

\* mutant: the high-water mark is restarted from the breach value
enter_hard_recovery_resets_peak(rm, value, date) ==
    [rm EXCEPT !.max_drawdown_date = date,
               !.recovery_mode = TRUE,
               !.hard_recovery_mode = TRUE,
               !.soft_recovery_mode = FALSE,
               !.max_drawdown_date_value = value,
               !.peak_portfolio_value = value,
               !.recovery_target_value = Frac(100 * value, 100)]

\* lines 137-150: enter hard recovery mode
enter_hard_recovery(rm, value, date) ==
    LET drawdown_amount == rm.peak_portfolio_value - value
    IN [rm EXCEPT !.max_drawdown_date = date,
                  !.recovery_mode = TRUE,
                  !.hard_recovery_mode = TRUE,
                  !.soft_recovery_mode = FALSE,
                  !.max_drawdown_date_value = value,
                  !.recovery_target_value =
                       Frac(100 * value + drawdown_amount * rm.recovery_pct, 100)]

\* lines 132-157
breach_branch(rm, value, date) ==
    LET hit == [rm EXCEPT !.max_drawdown_hit = TRUE]
    IN [rm |-> IF date # None THEN enter_hard_recovery(hit, value, date) ELSE hit,
        ret |-> FALSE, raised |-> FALSE]

\* lines 159-163
normal_branch(rm) ==
    [rm |-> IF FracLtPct(rm.current_drawdown, max_drawdown_pct)
            THEN [rm EXCEPT !.max_drawdown_hit = FALSE] ELSE rm,
     ret |-> TRUE, raised |-> FALSE]

\* RiskManager.set_portfolio_value: the new manager and the returned flag
set_portfolio_value(rm, value, date) ==
    LET rm1 == update_peak_and_drawdown(rm, value)
    IN IF rm1.recovery_mode THEN recovery_branch(rm1, value, date)
       ELSE IF drawdown_breached(rm1) THEN breach_branch(rm1, value, date)
       ELSE normal_branch(rm1)

\* a risk manager before its first update, with what its last update gave
Fresh(enabled, pct) ==
    [rm |-> [RiskManagerInit(enabled) EXCEPT !.recovery_pct = pct],
     ret |-> TRUE, raised |-> FALSE]

\* the pair variable before two managers are compared
NoPair == [a |-> Fresh(TRUE, recovery_pct), b |-> Fresh(TRUE, recovery_pct)]

\* mutant: the catastrophic stop is skipped while in recovery
should_close_all_positions_not_in_recovery(rm) ==
    IF ~rm.risk_enabled THEN FALSE
    ELSE IF FracGtPct(rm.current_drawdown, max_drawdown_pct) /\ ~rm.max_drawdown_hit
    THEN TRUE
    ELSE IF ~rm.recovery_mode
            /\ 2 * rm.current_portfolio_value < rm.initial_portfolio_value
    THEN TRUE
    ELSE FALSE

\* RiskManager.should_close_all_positions
should_close_all_positions(rm) ==
    IF ~rm.risk_enabled THEN FALSE
    ELSE IF FracGtPct(rm.current_drawdown, max_drawdown_pct) /\ ~rm.max_drawdown_hit
    THEN TRUE
    ELSE IF 2 * rm.current_portfolio_value < rm.initial_portfolio_value
    THEN TRUE
    ELSE FALSE

\* mutant: soft recovery refuses entries like hard recovery
can_enter_new_trades_soft_refused(rm, date) ==
    IF rm.hard_recovery_mode THEN FALSE
    ELSE IF rm.soft_recovery_mode THEN FALSE
    ELSE IF FracGtPct(rm.current_drawdown, max_drawdown_pct) THEN FALSE
    ELSE TRUE

\* RiskManager.can_enter_new_trades
can_enter_new_trades(rm, date) ==
    IF rm.hard_recovery_mode THEN FALSE
    ELSE IF rm.soft_recovery_mode THEN TRUE
    ELSE IF FracGtPct(rm.current_drawdown, max_drawdown_pct) THEN FALSE
    ELSE TRUE

\* the recovery state of section 4.3, read off the three flags
IsNormal(rm) == ~rm.recovery_mode /\ ~rm.hard_recovery_mode /\ ~rm.soft_recovery_mode
IsHard(rm) == rm.recovery_mode /\ rm.hard_recovery_mode /\ ~rm.soft_recovery_mode
IsSoft(rm) == rm.recovery_mode /\ rm.soft_recovery_mode /\ ~rm.hard_recovery_mode

\* int(): truncation toward zero of n/d, d > 0
Trunc(n, d) == IF n >= 0 THEN n \div d ELSE -((-n) \div d)
Abs(x) == IF x < 0 THEN -x ELSE x
Min(a, b) == IF a <= b THEN a ELSE b

\* RiskManager.check_position_stop_loss (entry_value is never 0 for a
\* position the engine opened)
check_position_stop_loss(rm, position) ==
    IF ~rm.risk_enabled THEN FALSE
    ELSE LET entry_value == position.entry_value
             current_value == position.current_value
             profit_loss == IF entry_value < 0 THEN entry_value - current_value
                            ELSE current_value - entry_value
         IN profit_loss * 100 < -stop_loss_pct * Abs(entry_value)

\* mutant: the kelly method sizes like equal_risk
calculate_position_sizing_kelly_not_halved(rm, option_price, portfolio_value) ==
    IF ~rm.risk_enabled
    THEN Trunc(5 * portfolio_value.num, 100 * portfolio_value.den * option_price)
    ELSE IF rm.recovery_mode /\ rm.hard_recovery_mode THEN 0
    ELSE LET sized == Trunc(max_position_risk_pct * portfolio_value.num,
                            100 * portfolio_value.den * option_price)
             contracts == IF sized = 0 /\ option_price > 0 THEN 1 ELSE sized
         IN IF rm.soft_recovery_mode
            THEN Trunc(contracts * recovery_scaling_factor, 100)
            ELSE contracts

\* RiskManager.calculate_position_sizing; option_price in cents, so that
\* option_price * 100 dollars is option_price; portfolio_value a fraction
calculate_position_sizing(rm, option_price, portfolio_value) ==
    IF ~rm.risk_enabled
    THEN Trunc(5 * portfolio_value.num, 100 * portfolio_value.den * option_price)
    ELSE IF rm.recovery_mode /\ rm.hard_recovery_mode THEN 0
    ELSE LET n == max_position_risk_pct * portfolio_value.num
             d == 100 * portfolio_value.den * option_price
             sized == IF rm.position_sizing_method = "equal_risk" THEN Trunc(n, d)
                      ELSE IF rm.position_sizing_method = "kelly" THEN Trunc(n, 2 * d)
                      ELSE Trunc(n, d)
             contracts == IF sized = 0 /\ option_price > 0 THEN 1 ELSE sized
         IN IF rm.soft_recovery_mode
            THEN Trunc(contracts * recovery_scaling_factor, 100)
            ELSE contracts

\* RiskManager.check_portfolio_risk; raised stands for the ZeroDivisionError
\* of abs(new_position_value) / portfolio_value
check_portfolio_risk(rm, new_position_value, portfolio_value) ==
    IF ~rm.risk_enabled THEN [raised |-> FALSE, ret |-> TRUE]
    ELSE IF rm.hard_recovery_mode THEN [raised |-> FALSE, ret |-> FALSE]
    ELSE IF portfolio_value = 0 THEN [raised |-> TRUE, ret |-> FALSE]
    ELSE IF portfolio_value > 0
            /\ Abs(new_position_value) * 100 > max_portfolio_risk_pct * portfolio_value
    THEN [raised |-> FALSE, ret |-> FALSE]
    ELSE [raised |-> FALSE, ret |-> TRUE]

\* mutant: the balance is judged in recovery as in NORMAL
check_trade_balance_in_recovery(rm, long_exposure, short_exposure) ==
    IF ~rm.risk_enabled THEN TRUE
    ELSE IF long_exposure <= 0 \/ Abs(short_exposure) <= 0 THEN FALSE
    ELSE IF long_exposure * 100 > max_long_short_ratio * Abs(short_exposure) THEN FALSE
    ELSE TRUE

\* RiskManager.check_trade_balance
check_trade_balance(rm, long_exposure, short_exposure) ==
    IF ~rm.risk_enabled THEN TRUE
    ELSE IF rm.recovery_mode THEN FALSE
    ELSE IF long_exposure <= 0 \/ Abs(short_exposure) <= 0 THEN FALSE
    ELSE IF long_exposure * 100 > max_long_short_ratio * Abs(short_exposure) THEN FALSE
    ELSE TRUE

\* ------------------------------------------------------------------------
\* BacktestEngine: the ledger.  L is the mutable part of the engine that the
\* trade functions touch: [current_cash, positions, trade_history].
\* A price is in cents, so the code's quantity * price * 100 is quantity * price.
\* ------------------------------------------------------------------------
Ledger(cash, pos, trades) ==
    [current_cash |-> cash, positions |-> pos, trade_history |-> trades]

\* options_pricer.py: data/processed/<ticker>.csv holds one row per calendar
\* day from the ticker's first row on; a ticker without a first row has no file
first_row(ticker) ==
    IF ticker \in {"SPY", "AAPL", "XOM"} THEN -60
    ELSE IF ticker = "NEWCO" THEN -10
    ELSE None

\* lines 51 and 59: the file exists, and the rows dated on or before the pricing date
data_file_exists(ticker) == first_row(ticker) # None
rows_up_to(ticker, date) ==
    IF date < first_row(ticker) THEN 0
    ELSE date - first_row(ticker) + 1

\* str.lower() on the model names that are passed
lower(model) ==
    IF model \in {"black_scholes", "Black_Scholes", "BLACK_SCHOLES"} THEN "black_scholes"
    ELSE IF model \in {"binomial", "Binomial"} THEN "binomial"
    ELSE model

\* lines 80-86: the value of the selected model, in cents.  The numerics of
\* black_scholes and binomial_tree are stood for by a time value that grows
\* with the days to expiration; the American price is not below the European
model_value(model, date, expiration_date) ==
    IF lower(model) = "black_scholes" THEN 10 * (expiration_date - date)
    ELSE 10 * (expiration_date - date) + 5

\* mutant: the expiration is checked before the history
price_options_expiry_first(ticker, date, expiration_date, model) ==
    IF ~data_file_exists(ticker)
    THEN [raised |-> "FileNotFoundError", message |-> "Historical data not found", price |-> None]
    ELSE IF expiration_date - date <= 0
    THEN [raised |-> "ValueError", message |-> "Expiration date must be after current date", price |-> None]
    ELSE IF rows_up_to(ticker, date) < 30
    THEN [raised |-> "ValueError", message |-> "Not enough historical data", price |-> None]
    ELSE IF lower(model) \notin {"black_scholes", "binomial"}
    THEN [raised |-> "ValueError", message |-> "Model must be either 'black_scholes' or 'binomial'", price |-> None]
    ELSE [raised |-> "None", message |-> "None",
          price |-> model_value(model, date, expiration_date)]

\* options_pricer.price_options: the checks in the order of the code, each
\* raising; a price is returned only when none of them fires
price_options(ticker, date, expiration_date, model) ==
    IF ~data_file_exists(ticker)
    THEN [raised |-> "FileNotFoundError", message |-> "Historical data not found", price |-> None]
    ELSE IF rows_up_to(ticker, date) < 30
    THEN [raised |-> "ValueError", message |-> "Not enough historical data", price |-> None]
    ELSE IF expiration_date - date <= 0
    THEN [raised |-> "ValueError", message |-> "Expiration date must be after current date", price |-> None]
    ELSE IF lower(model) \notin {"black_scholes", "binomial"}
    THEN [raised |-> "ValueError", message |-> "Model must be either 'black_scholes' or 'binomial'", price |-> None]
    ELSE [raised |-> "None", message |-> "None",
          price |-> model_value(model, date, expiration_date)]

\* ------------------------------------------------------------------------
\* options_pricer.binomial_tree.  The up factor u = exp(sigma * sqrt(dt))
\* and the growth of one step g = exp(r * dt) are whole numbers here, and
\* the spot is a multiple of u^steps, so that every node price S * u^(step-i)
\* * d^i with d = 1/u is whole.  With p = (g - d) / (u - d) the discounted
\* expectation exp(-r * dt) * (p * a + (1 - p) * b) is
\* ((g*u - 1) * a + (u*u - g*u) * b) / (g * (u*u - 1)); a value of the level
\* `step` is kept as the numerator over step_denominator^(steps - step).
\* ------------------------------------------------------------------------
RECURSIVE Pow(_, _)
Pow(b, e) == IF e = 0 THEN 1 ELSE b * Pow(b, e - 1)

\* lines 169 and 185: S * (u ** (step - i)) * (d ** i)
node_price(S, u, step, i) ==
    IF step - 2 * i >= 0 THEN S * Pow(u, step - 2 * i)
    ELSE S \div Pow(u, 2 * i - step)

\* lines 174-177 and 191-194: max(0, asset_price - K) or max(0, K - asset_price)
exercise_value(asset_price, K, option_type) ==
    IF option_type = "call" THEN Max(0, asset_price - K) ELSE Max(0, K - asset_price)

step_denominator(u, g) == g * (u * u - 1)

\* line 188: the numerator of the discounted expectation
continuation(a, b, u, g) == (g * u - 1) * a + (u * u - g * u) * b

\* mutant: the node keeps the discounted expectation (a European tree)
node_value_without_exercise(option_value, exercise) == option_value

\* line 197: option_values[i] = max(option_value, exercise_value)
node_value(option_value, exercise) == Max(option_value, exercise)

\* lines 172-179: option values at the final step
terminal_values(S, K, steps, u, option_type) ==
    [j \in 1..(steps + 1) |->
        exercise_value(node_price(S, u, steps, j - 1), K, option_type)]

\* lines 183-197: the values of the level `step` from those of the next
\* level
induction_step(values, S, K, steps, u, g, option_type, step) ==
    [j \in 1..(step + 1) |->
        node_value(continuation(values[j], values[j + 1], u, g),
                   exercise_value(node_price(S, u, step, j - 1), K, option_type)
                       * Pow(step_denominator(u, g), steps - step))]

\* lines 182-197: for step in range(steps - 1, -1, -1)
RECURSIVE backward_induction(_, _, _, _, _, _, _, _)
backward_induction(values, S, K, steps, u, g, option_type, step) ==
    IF step < 0 THEN values
    ELSE backward_induction(
             induction_step(values, S, K, steps, u, g, option_type, step),
             S, K, steps, u, g, option_type, step - 1)

\* options_pricer.binomial_tree: option_values[0], as a fraction
binomial_tree(S, K, steps, u, g, option_type) ==
    Frac(backward_induction(terminal_values(S, K, steps, u, option_type),
                            S, K, steps, u, g, option_type, steps - 1)[1],
         Pow(step_denominator(u, g), steps))

\* the valuation variable before any request
NoValuation ==
    [S |-> None, K |-> None, steps |-> None, u |-> None, g |-> None,
     option_type |-> "None", price |-> Frac(None, 1)]

\* the parameters that price_options declares (options_pricer.py lines 14-15)
\* and the keywords that _price_option passes (engine.py lines 786-794)
price_options_parameters ==
    {"ticker", "current_date", "expiration_date", "strike_price", "option_type",
     "model", "risk_free_rate", "steps"}
_price_option_keywords ==
    {"ticker", "current_date", "expiration_date", "strike_price", "option_type",
     "model", "volatility_method"}

\* the pricing variable before any request
NoQuote ==
    [keywords |-> {}, ticker |-> "None", current_date |-> None,
     expiration_date |-> None, model |-> "None", raised |-> "None",
     message |-> "None", price |-> None, used |-> None]

\* a Python call by keywords: a keyword that is not a parameter raises
\* TypeError before the body of the function runs
call_price_options(keywords, ticker, date, expiration_date, model) ==
    IF ~(keywords \subseteq price_options_parameters)
    THEN [raised |-> "TypeError", message |-> "unexpected keyword argument", price |-> None]
    ELSE price_options(ticker, date, expiration_date, model)

\* mutant: a NaN is taken for a price
price_or_fallback_nan_kept(r) ==
    IF r.raised # "None" THEN FallbackPrice
    ELSE IF r.price = NaN THEN NaN
    ELSE IF r.price = Infinity \/ r.price <= 0 THEN FallbackPrice
    ELSE r.price

\* lines 799 and 803-805: what the call site makes of the outcome of the call
price_or_fallback(r) ==
    IF r.raised # "None" THEN FallbackPrice
    ELSE IF r.price = NaN \/ r.price = Infinity \/ r.price <= 0 THEN FallbackPrice
    ELSE r.price

\* BacktestEngine._price_option
_price_option(ticker, date, expiration_date) ==
    price_or_fallback(call_price_options(_price_option_keywords, ticker, date,
                                         expiration_date, pricing_model))

\* BacktestEngine._get_price_on_date, in cents
_get_price_on_date(ticker, date) == Adjusted(ticker, date)

\* round() of a price in cents to whole dollars, ties to even
round(cents) ==
    LET q == cents \div 100
        r == cents % 100
    IN IF r < 50 THEN q
       ELSE IF r > 50 THEN q + 1
       ELSE IF q % 2 = 0 THEN q ELSE q + 1

\* mutant: the record takes the place of the latest one
_record_trade_overwrites(L, date, ticker, trade_type, quantity, price, value, option_details) ==
    [L EXCEPT !.trade_history =
        LET trade == [date |-> date, ticker |-> ticker, trade_type |-> trade_type,
                      position_type |-> "option", quantity |-> quantity,
                      price |-> price, value |-> value,
                      option_details |-> option_details]
        IN IF @ = <<>> THEN <<trade>> ELSE [@ EXCEPT ![Len(@)] = trade]]

\* BacktestEngine._record_trade
_record_trade(L, date, ticker, trade_type, quantity, price, value, option_details) ==
    [L EXCEPT !.trade_history = Append(@,
        [date |-> date, ticker |-> ticker, trade_type |-> trade_type,
         position_type |-> "option", quantity |-> quantity, price |-> price,
         value |-> value, option_details |-> option_details])]

OptionDetails(strike, expiration, option_type, strategy, exit_reason) ==
    [strike |-> strike, expiration |-> expiration, option_type |-> option_type,
     strategy |-> strategy, exit_reason |-> exit_reason]

\* BacktestEngine._open_option_position
_open_option_position(L, date, ticker, quantity, strike_price, expiration_date, option_type, price, strategy) ==
    LET position_value == quantity * price
        position ==
            [ticker |-> ticker, type |-> "option", option_type |-> option_type,
             quantity |-> quantity, strike_price |-> strike_price,
             expiration_date |-> expiration_date, entry_date |-> date,
             entry_price |-> price, entry_value |-> position_value,
             current_value |-> position_value, status |-> "open",
             strategy |-> strategy,
             exit_date |-> None, exit_price |-> None, exit_value |-> None,
             exit_reason |-> "None"]
        L1 == [L EXCEPT !.current_cash = @ - position_value,
                        !.positions = Append(@, position)]
    IN _record_trade(L1, date, ticker, "open", quantity, price, position_value,
           OptionDetails(strike_price, expiration_date, option_type, strategy, "None"))

\* mutant: the status of the position is not looked at
_close_position_whatever_status(L, position_id, reason, date) ==
    LET position == L.positions[position_id]
        current_price == _price_option(position.ticker, date,
                                       position.expiration_date)
        position_value == -position.quantity * current_price
        L1 == [L EXCEPT !.current_cash = @ + position_value,
                        !.positions[position_id] =
                            [@ EXCEPT !.status = "closed",
                                      !.exit_date = date,
                                      !.exit_price = current_price,
                                      !.exit_value = position_value,
                                      !.exit_reason = reason]]
    IN _record_trade(L1, date, position.ticker, "close", -position.quantity,
           current_price, position_value,
           OptionDetails(position.strike_price, position.expiration_date,
                         position.option_type, position.strategy, reason))

\* BacktestEngine._close_position
_close_position(L, position_id, reason, date) ==
    LET position == L.positions[position_id]
    IN IF position.status # "open" THEN L
       ELSE LET current_price == _price_option(position.ticker, date,
                                                position.expiration_date)
                position_value == -position.quantity * current_price
                L1 == [L EXCEPT !.current_cash = @ + position_value,
                                !.positions[position_id] =
                                    [@ EXCEPT !.status = "closed",
                                              !.exit_date = date,
                                              !.exit_price = current_price,
                                              !.exit_value = position_value,
                                              !.exit_reason = reason]]
            IN _record_trade(L1, date, position.ticker, "close", -position.quantity,
                   current_price, position_value,
                   OptionDetails(position.strike_price, position.expiration_date,
                                 position.option_type, position.strategy, reason))

\* closes, in order, the positions whose ids are in ids (a sequence)
RECURSIVE close_positions(_, _, _, _)
close_positions(L, ids, reason, date) ==
    IF ids = <<>> THEN L
    ELSE close_positions(_close_position(L, Head(ids), reason, date),
                         Tail(ids), reason, date)

\* the ids of the positions flagged in the sequence of booleans flags, in
\* dictionary order
ids_where(flags) ==
    SelectSeq([i \in 1..Len(flags) |-> i], LAMBDA i : flags[i])

IsOpen(position) == position.status = "open"

\* BacktestEngine._close_all_positions
_close_all_positions(L, reason, date) ==
    close_positions(L, ids_where([i \in 1..Len(L.positions) |-> IsOpen(L.positions[i])]), reason, date)

\* sum of current_value over the open positions
RECURSIVE open_value(_, _)
open_value(pos, i) ==
    IF i > Len(pos) THEN 0
    ELSE (IF pos[i].status = "open" THEN pos[i].current_value ELSE 0)
         + open_value(pos, i + 1)

\* mutant: a position whose pricing failed is valued at nothing
_calculate_position_value_lost(position, date) ==
    IF call_price_options(_price_option_keywords, position.ticker, date,
                          position.expiration_date, pricing_model).raised # "None"
    THEN 0
    ELSE position.quantity * _price_option(position.ticker, date,
                                           position.expiration_date)

\* BacktestEngine._calculate_position_value (every position is an option)
_calculate_position_value(position, date) ==
    position.quantity * _price_option(position.ticker, date,
                                      position.expiration_date)

\* BacktestEngine._update_position_values: the ledger, the value found, the
\* risk manager after its update and the flag the update returned
_update_position_values(L, rm, date) ==
    LET revalued == [i \in 1..Len(L.positions) |->
                        IF L.positions[i].status = "open"
                        THEN [L.positions[i] EXCEPT !.current_value =
                                 _calculate_position_value(L.positions[i], date)]
                        ELSE L.positions[i]]
        portfolio_value == L.current_cash + open_value(revalued, 1)
        StopLoss(position) ==
            position.status = "open" /\ check_position_stop_loss(rm, position)
        positions_to_close == ids_where([i \in 1..Len(revalued) |-> StopLoss(revalued[i])])
        L1 == close_positions([L EXCEPT !.positions = revalued],
                              positions_to_close, "stop_loss", date)
        r == set_portfolio_value(rm, portfolio_value, date)
        L2 == IF should_close_all_positions(r.rm)
              THEN _close_all_positions(L1, "risk_limit", date)
              ELSE L1
    IN [L |-> L2, portfolio_value |-> portfolio_value, rm |-> r.rm, ret |-> r.ret]

\* mutant: the settlement is valued on the unsigned number of contracts
_close_expired_option_unsigned(L, position_id, date) ==
    LET position == L.positions[position_id]
        underlying_price == _get_price_on_date(position.ticker, date)
        strike == 100 * position.strike_price
        intrinsic_value == IF position.option_type = "call"
                           THEN Max(0, underlying_price - strike)
                           ELSE Max(0, strike - underlying_price)
        position_value == intrinsic_value * Abs(position.quantity)
        L1 == [L EXCEPT !.current_cash = @ + position_value,
                        !.positions[position_id] =
                            [@ EXCEPT !.status = "closed",
                                      !.exit_date = date,
                                      !.exit_price = intrinsic_value,
                                      !.exit_value = position_value]]
    IN _record_trade(L1, date, position.ticker, "close", position.quantity,
           intrinsic_value, position_value,
           OptionDetails(position.strike_price, position.expiration_date,
                         position.option_type, "None", "None"))

\* BacktestEngine._close_expired_option
_close_expired_option(L, position_id, date) ==
    LET position == L.positions[position_id]
        underlying_price == _get_price_on_date(position.ticker, date)
        strike == 100 * position.strike_price
        intrinsic_value == IF position.option_type = "call"
                           THEN Max(0, underlying_price - strike)
                           ELSE Max(0, strike - underlying_price)
        position_value == intrinsic_value * position.quantity
        L1 == [L EXCEPT !.current_cash = @ + position_value,
                        !.positions[position_id] =
                            [@ EXCEPT !.status = "closed",
                                      !.exit_date = date,
                                      !.exit_price = intrinsic_value,
                                      !.exit_value = position_value]]
    IN _record_trade(L1, date, position.ticker, "close", position.quantity,
           intrinsic_value, position_value,
           OptionDetails(position.strike_price, position.expiration_date,
                         position.option_type, "None", "None"))

RECURSIVE close_expired(_, _, _)
close_expired(L, ids, date) ==
    IF ids = <<>> THEN L
    ELSE close_expired(_close_expired_option(L, Head(ids), date), Tail(ids), date)

\* mutant: an option is settled only after its expiration date has passed
_process_expirations_after_the_date(L, date) ==
    LET Expired(position) ==
            /\ position.type = "option"
            /\ position.status = "open"
            /\ position.expiration_date < date
    IN close_expired(L, ids_where([i \in 1..Len(L.positions) |-> Expired(L.positions[i])]), date)

\* BacktestEngine._process_expirations
_process_expirations(L, date) ==
    LET Expired(position) ==
            /\ position.type = "option"
            /\ position.status = "open"
            /\ position.expiration_date <= date
    IN close_expired(L, ids_where([i \in 1..Len(L.positions) |-> Expired(L.positions[i])]), date)

\* ------------------------------------------------------------------------
\* BacktestEngine: entries and exit
\* ------------------------------------------------------------------------
SetMin(S) == CHOOSE x \in S : \A y \in S : x <= y
SetMax(S) == CHOOSE x \in S : \A y \in S : x >= y

\* mutant: the expiry is the target date, 30 days ahead, whatever the
\* calendar holds
select_expiration_from_target_date(calendar, date) ==
    [ok |-> TRUE, date |-> date + 30]

\* lines 462-479 and 1126-1143: the expiration of a trade entered on date
\* when the trading dates are those of calendar (sorted, engine.py:156)
select_expiration_from(calendar, date) ==
    LET target_expiry == date + 30
        valid_expiry_days == {d \in calendar : d > date}
        future_dates == {d \in valid_expiry_days : d - date >= 7}
        at_or_after_target == {d \in future_dates : d - target_expiry >= 0}
    IN IF valid_expiry_days = {} \/ future_dates = {} THEN [ok |-> FALSE, date |-> None]
       ELSE [ok |-> TRUE,
             date |-> IF at_or_after_target # {} THEN SetMin(at_or_after_target)
                      ELSE SetMax(future_dates)]

select_expiration(date) ==
    select_expiration_from({trading_dates[i] : i \in 1..Len(trading_dates)}, date)

\* the selection variable before any entry
NoSelection == [calendar |-> {}, date |-> None, ok |-> FALSE, expiration_date |-> None]

\* lines 593-631: the components traded, by descending weight, and the sum
\* of their weights used to renormalise
valid_components == component_tickers
RECURSIVE weight_sum(_)
weight_sum(tickers) ==
    IF tickers = <<>> THEN 0 ELSE component_weights[Head(tickers)] + weight_sum(Tail(tickers))
total_weight == weight_sum(valid_components)

\* lines 538-560 and 1202-1224: one index leg, opened if contracts > 0
open_leg(L, contracts, sign, date, ticker, strike, expiration_date, option_type, price, strategy) ==
    IF contracts > 0
    THEN _open_option_position(L, date, ticker, sign * contracts, strike,
                               expiration_date, option_type, price, strategy)
    ELSE L

\* lines 650-745 and 1312-1407: the body of the component loop for one
\* ticker; acc carries the ledger, the premium and the exposure so far;
\* sign is 1 for the long legs of a dispersion trade, -1 for the short legs
\* of a reverse trade
trade_component(acc, rm, portfolio_value, date, expiration_date, ticker, component_premium_target, strategy, sign) ==
    LET weight == component_weights[ticker]
        comp_price == _get_price_on_date(ticker, date)
        comp_strike == round(comp_price)
        target_premium == Frac(component_premium_target.num * weight,
                               component_premium_target.den * total_weight)
        comp_call_price == _price_option(ticker, date, expiration_date)
        comp_put_price == _price_option(ticker, date, expiration_date)
        TargetContracts(price) ==
            LET c == Trunc(target_premium.num, target_premium.den * 2 * price)
            IN IF c = 0 /\ target_premium.num > 0 THEN 1 ELSE c
        RiskContracts(price) ==
            calculate_position_sizing(rm, price,
                Frac(portfolio_value * weight, total_weight))
        comp_call_contracts == Min(TargetContracts(comp_call_price),
                                   RiskContracts(comp_call_price))
        comp_put_contracts == Min(TargetContracts(comp_put_price),
                                  RiskContracts(comp_put_price))
        call_value == sign * comp_call_contracts * comp_call_price
        put_value == sign * comp_put_contracts * comp_put_price
        chk == check_portfolio_risk(rm, call_value + put_value, portfolio_value)
        L1 == open_leg(acc.L, comp_call_contracts, sign, date, ticker, comp_strike,
                       expiration_date, "call", comp_call_price, strategy)
        L2 == open_leg(L1, comp_put_contracts, sign, date, ticker, comp_strike,
                       expiration_date, "put", comp_put_price, strategy)
    IN IF comp_price = Infinity THEN acc
       ELSE IF chk.raised \/ ~chk.ret THEN acc
       ELSE [L |-> L2,
             premium |-> acc.premium
                 + (IF comp_call_contracts > 0
                    THEN comp_call_price * comp_call_contracts ELSE 0)
                 + (IF comp_put_contracts > 0
                    THEN comp_put_price * comp_put_contracts ELSE 0),
             exposure |-> acc.exposure
                 + (IF comp_call_contracts > 0 THEN call_value ELSE 0)
                 + (IF comp_put_contracts > 0 THEN put_value ELSE 0)]

\* lines 649 and 1311: for ticker in valid_components
RECURSIVE trade_components(_, _, _, _, _, _, _, _, _)
trade_components(acc, rm, portfolio_value, date, expiration_date, tickers, component_premium_target, strategy, sign) ==
    IF tickers = <<>> THEN acc
    ELSE trade_components(
             trade_component(acc, rm, portfolio_value, date, expiration_date,
                             Head(tickers), component_premium_target, strategy, sign),
             rm, portfolio_value, date, expiration_date, Tail(tickers),
             component_premium_target, strategy, sign)

\* BacktestEngine._enter_dispersion_trade: the ledger after it, and whether
\* it raised
_enter_dispersion_trade(L, rm, portfolio_value, date) ==
    LET exp == select_expiration(date)
        expiration_date == exp.date
        index_price == _get_price_on_date(index_ticker, date)
        index_strike == round(index_price)
        index_call_price == _price_option(index_ticker, date, expiration_date)
        index_put_price == _price_option(index_ticker, date, expiration_date)
        index_call_contracts ==
            calculate_position_sizing(rm, index_call_price, Frac(portfolio_value, 1))
        index_put_contracts ==
            calculate_position_sizing(rm, index_put_price, Frac(portfolio_value, 1))
        call_value == -index_call_contracts * index_call_price
        put_value == -index_put_contracts * index_put_price
        chk == check_portfolio_risk(rm, call_value + put_value, portfolio_value)
        L1 == open_leg(L, index_call_contracts, -1, date, index_ticker, index_strike,
                       expiration_date, "call", index_call_price, "dispersion")
        L2 == open_leg(L1, index_put_contracts, -1, date, index_ticker, index_strike,
                       expiration_date, "put", index_put_price, "dispersion")
        total_short_exposure ==
            (IF index_call_contracts > 0 THEN call_value ELSE 0)
            + (IF index_put_contracts > 0 THEN put_value ELSE 0)
        premium_collected == index_call_price * index_call_contracts
                             + index_put_price * index_put_contracts
        L3 == [L2 EXCEPT !.current_cash = @ + premium_collected]
        component_premium_target ==
            Frac(premium_collected * long_short_balance_factor, 100)
        comps == trade_components([L |-> L3, premium |-> 0, exposure |-> 0], rm,
                     portfolio_value, date, expiration_date, valid_components,
                     component_premium_target, "dispersion", 1)
        L4 == [comps.L EXCEPT !.current_cash = @ - comps.premium]
    IN IF ~exp.ok THEN [L |-> L, raised |-> FALSE]
       ELSE IF chk.raised \/ ~chk.ret THEN [L |-> L, raised |-> FALSE]
       ELSE IF premium_collected <= 0 THEN [L |-> L3, raised |-> FALSE]
       ELSE IF Len(component_tickers) = 0 THEN [L |-> L3, raised |-> FALSE]
       ELSE [L |-> L4, raised |-> FALSE]

\* mutant: the budget of the reverse trade is derived as in the dispersion
\* trade, by multiplying with the balance factor
reverse_component_budget_multiplied(total_long_exposure) ==
    Frac(total_long_exposure * long_short_balance_factor, 100)

\* line 1241: the component budget of the reverse trade
reverse_component_budget(total_long_exposure) ==
    Frac(total_long_exposure * 100, long_short_balance_factor)

\* BacktestEngine._enter_reverse_dispersion_trade; it raises (division by
\* zero in the imbalance warning, line 1429) when the trade is found
\* unbalanced and no component leg was opened
_enter_reverse_dispersion_trade(L, rm, portfolio_value, date) ==
    LET exp == select_expiration(date)
        expiration_date == exp.date
        index_price == _get_price_on_date(index_ticker, date)
        index_strike == round(index_price)
        index_call_price == _price_option(index_ticker, date, expiration_date)
        index_put_price == _price_option(index_ticker, date, expiration_date)
        index_call_contracts ==
            calculate_position_sizing(rm, index_call_price, Frac(portfolio_value, 1))
        index_put_contracts ==
            calculate_position_sizing(rm, index_put_price, Frac(portfolio_value, 1))
        call_value == index_call_contracts * index_call_price
        put_value == index_put_contracts * index_put_price
        chk == check_portfolio_risk(rm, call_value + put_value, portfolio_value)
        L1 == open_leg(L, index_call_contracts, 1, date, index_ticker, index_strike,
                       expiration_date, "call", index_call_price, "reverse_dispersion")
        L2 == open_leg(L1, index_put_contracts, 1, date, index_ticker, index_strike,
                       expiration_date, "put", index_put_price, "reverse_dispersion")
        total_long_exposure ==
            (IF index_call_contracts > 0 THEN call_value ELSE 0)
            + (IF index_put_contracts > 0 THEN put_value ELSE 0)
        component_premium_target == reverse_component_budget(total_long_exposure)
        comps == trade_components([L |-> L2, premium |-> 0, exposure |-> 0], rm,
                     portfolio_value, date, expiration_date, valid_components,
                     component_premium_target, "reverse_dispersion", -1)
        L3 == [comps.L EXCEPT !.current_cash = @ + comps.premium]
        total_short_exposure == comps.exposure
        is_balanced == check_trade_balance(rm, total_long_exposure, total_short_exposure)
    IN IF ~exp.ok THEN [L |-> L, raised |-> FALSE]
       ELSE IF chk.raised \/ ~chk.ret THEN [L |-> L, raised |-> FALSE]
       ELSE IF total_long_exposure <= 0 THEN [L |-> L2, raised |-> FALSE]
       ELSE IF Len(component_tickers) = 0 THEN [L |-> L2, raised |-> FALSE]
       ELSE [L |-> L3, raised |-> ~is_balanced /\ total_short_exposure = 0]

\* BacktestEngine._exit_dispersion_trades: one position
exit_position(L, position_id, date) ==
    LET position == L.positions[position_id]
        current_price == _price_option(position.ticker, date,
                                       position.expiration_date)
        position_value == -position.quantity * current_price
        L1 == [L EXCEPT !.current_cash = @ + position_value,
                        !.positions[position_id] =
                            [@ EXCEPT !.status = "closed",
                                      !.exit_date = date,
                                      !.exit_price = current_price,
                                      !.exit_value = position_value]]
    IN _record_trade(L1, date, position.ticker, "close", -position.quantity,
           current_price, position_value,
           OptionDetails(position.strike_price, position.expiration_date,
                         position.option_type, "dispersion", "None"))

RECURSIVE exit_positions(_, _, _)
exit_positions(L, ids, date) ==
    IF ids = <<>> THEN L
    ELSE exit_positions(exit_position(L, Head(ids), date), Tail(ids), date)

\* BacktestEngine._exit_dispersion_trades
_exit_dispersion_trades(L, date) ==
    LET Dispersion(position) ==
            position.status = "open" /\ position.strategy = "dispersion"
    IN exit_positions(L, ids_where([i \in 1..Len(L.positions) |-> Dispersion(L.positions[i])]), date)

\* BacktestEngine._execute_trades
_execute_trades(L, rm, portfolio_value, signal, date) ==
    IF ~can_enter_new_trades(rm, date) THEN [L |-> L, raised |-> FALSE]
    ELSE IF signal = "ENTER_DISPERSION"
    THEN _enter_dispersion_trade(L, rm, portfolio_value, date)
    ELSE IF signal = "ENTER_REVERSE_DISPERSION"
    THEN _enter_reverse_dispersion_trade(L, rm, portfolio_value, date)
    ELSE IF signal = "EXIT"
    THEN [L |-> _exit_dispersion_trades(L, date), raised |-> FALSE]
    ELSE [L |-> L, raised |-> FALSE]

\* sum of current_value over the open positions that satisfy Test
RECURSIVE exposure_of(_, _)
exposure_of(pos, ids) ==
    IF ids = <<>> THEN 0 ELSE pos[Head(ids)].current_value + exposure_of(pos, Tail(ids))

\* BacktestEngine._record_portfolio_value: the snapshot appended
_record_portfolio_value(L, rm, portfolio_value, date) ==
    LET Long(p) == p.status = "open" /\ p.quantity > 0
        Short(p) == p.status = "open" /\ ~(p.quantity > 0)
        Index(p) == p.status = "open" /\ p.ticker = index_ticker
        Comp(p) == p.status = "open" /\ p.ticker # index_ticker
        total_long_exposure == exposure_of(L.positions, ids_where([i \in 1..Len(L.positions) |-> Long(L.positions[i])]))
        total_short_exposure == exposure_of(L.positions, ids_where([i \in 1..Len(L.positions) |-> Short(L.positions[i])]))
        net_exposure == total_long_exposure + total_short_exposure
    IN [date |-> date,
        value |-> portfolio_value,
        cash |-> L.current_cash,
        drawdown |-> rm.current_drawdown,
        long_exposure |-> total_long_exposure,
        short_exposure |-> total_short_exposure,
        net_exposure |-> net_exposure,
        net_exposure_pct |-> IF portfolio_value # 0
                             THEN Frac(net_exposure, portfolio_value) ELSE FracZero,
        index_exposure |-> exposure_of(L.positions, ids_where([i \in 1..Len(L.positions) |-> Index(L.positions[i])])),
        components_exposure |-> exposure_of(L.positions, ids_where([i \in 1..Len(L.positions) |-> Comp(L.positions[i])])),
        recovery_mode |-> rm.recovery_mode]

\* ------------------------------------------------------------------------
\* BacktestEngine.run: one trading day per step
\* ------------------------------------------------------------------------
Init ==
    /\ \E enabled \in BOOLEAN, cash \in AccountSizes :
          /\ risk_manager = [RiskManagerInit(enabled) EXCEPT
                                !.initial_portfolio_value = cash]
          /\ current_cash = cash
    /\ current_date = 0
    /\ within_limits = TRUE
    /\ updates = 0
    /\ trading_days_since_breach = 0
    /\ positions = <<>>
    /\ trade_history = <<>>
    /\ portfolio_history = <<>>
    /\ current_portfolio_value = None
    /\ signals = "None"
    /\ aborted = FALSE
    /\ quote = NoQuote
    /\ selection = NoSelection
    /\ valuation = NoValuation
    /\ pair = NoPair

\* mutant: signals are generated whenever no liquidation is called for
signals_wanted_without_entry_gate(rm, date) ==
    ~should_close_all_positions(rm)

\* lines 216-222: are signals generated today
signals_wanted(rm, date) ==
    /\ ~should_close_all_positions(rm)
    /\ can_enter_new_trades(rm, date)

\* BacktestEngine._process_trading_day on the next date of the calendar;
\* signal is what _generate_signals gives if it is asked
_process_trading_day(signal) ==
    /\ ~aborted
    /\ updates < Len(trading_dates)
    /\ LET date == trading_dates[updates + 1]
       IN \E u \in {_update_position_values(
                        Ledger(current_cash, positions, trade_history),
                        risk_manager, date)} :
          \E asked \in {signals_wanted(u.rm, date)} :
          \E t \in {IF asked
                    THEN _execute_trades(_process_expirations(u.L, date), u.rm,
                                         u.portfolio_value, signal, date)
                    ELSE [L |-> _process_expirations(u.L, date), raised |-> FALSE]} :
          /\ current_date' = date
          /\ risk_manager' = u.rm
          /\ within_limits' = u.ret
          /\ trading_days_since_breach' =
                IF IsNormal(risk_manager) THEN 0 ELSE trading_days_since_breach + 1
          /\ current_portfolio_value' = u.portfolio_value
          /\ signals' = IF asked THEN signal ELSE "None"
          /\ current_cash' = t.L.current_cash
          /\ positions' = t.L.positions
          /\ trade_history' = t.L.trade_history
          /\ aborted' = t.raised
          /\ portfolio_history' =
                IF t.raised THEN portfolio_history
                ELSE Append(portfolio_history,
                        _record_portfolio_value(t.L, u.rm, u.portfolio_value, date))
    /\ updates' = updates + 1
    /\ UNCHANGED <<pricer_vars, calendar_vars, pair_vars>>

Next ==
    \E signal \in Signals : _process_trading_day(signal)

Spec == Init /\ [][Next]_vars

\* the loop of engine.py:197-200: as long as no day has raised, the run
\* goes on to the next date of the calendar
next_trading_day ==
    /\ ~aborted
    /\ updates < Len(trading_dates)
    /\ updates' = updates + 1

FairSpec == Init /\ [][Next]_vars /\ WF_updates(next_trading_day)

\* ------------------------------------------------------------------------
\* The risk manager driven directly by a sequence of dated updates
\* ------------------------------------------------------------------------
InitRM ==
    /\ \E enabled \in BOOLEAN, method \in SizingMethods :
          risk_manager = [RiskManagerInit(enabled) EXCEPT
                             !.position_sizing_method = method]
    /\ current_date = 0
    /\ within_limits = TRUE
    /\ updates = 0
    /\ trading_days_since_breach = 0
    /\ current_cash = initial_cash
    /\ positions = <<>>
    /\ trade_history = <<>>
    /\ portfolio_history = <<>>
    /\ current_portfolio_value = None
    /\ signals = "None"
    /\ aborted = FALSE
    /\ quote = NoQuote
    /\ selection = NoSelection
    /\ valuation = NoValuation
    /\ pair = NoPair

Update(value, gap) ==
    /\ updates < MaxUpdates
    /\ LET date == current_date + gap
           r == set_portfolio_value(risk_manager, value, date)
       IN /\ risk_manager' = r.rm
          /\ within_limits' = r.ret
          /\ current_date' = date
          /\ trading_days_since_breach' =
                IF IsNormal(risk_manager) THEN 0
                ELSE trading_days_since_breach + 1
    /\ updates' = updates + 1
    /\ UNCHANGED <<engine_vars, pricer_vars, calendar_vars, pair_vars>>

NextRM == \E value \in Values, gap \in 1..MaxGap : Update(value, gap)

SpecRM == InitRM /\ [][NextRM]_vars

\* ------------------------------------------------------------------------
\* The pricing call made directly: with the keywords that price_options
\* declares, or with those that BacktestEngine._price_option passes
\* ------------------------------------------------------------------------
PricedTickers == {"SPY", "AAPL", "NEWCO", "DELISTED"}
PricingDates == {1, 18, 19, 31}
ExpirationDates == {1, 31, 41}
PricingModels == {"black_scholes", "Black_Scholes", "binomial", "monte_carlo"}
declared_keywords ==
    {"ticker", "current_date", "expiration_date", "strike_price", "option_type", "model"}

\* the floats that the closed form and the tree can give where the model has
\* the price p: p itself, zero (a far out-of-the-money option underflows), a
\* negative rounding error, and NaN or an infinity (zero volatility, or a
\* price series that is not finite)
float_outcomes(p) == {p, 0, -1, NaN, Infinity}

\* the outcomes of the call: the exception, or one of the floats
call_outcomes(keywords, ticker, date, expiration_date, model) ==
    LET r == call_price_options(keywords, ticker, date, expiration_date, model)
    IN IF r.raised # "None" THEN {r}
       ELSE {[r EXCEPT !.price = p] : p \in float_outcomes(r.price)}

Price(keywords, ticker, date, expiration_date, model) ==
    /\ \E r \in call_outcomes(keywords, ticker, date, expiration_date, model) :
          quote' = [keywords |-> keywords, ticker |-> ticker, current_date |-> date,
                    expiration_date |-> expiration_date, model |-> model,
                    raised |-> r.raised, message |-> r.message, price |-> r.price,
                    used |-> price_or_fallback(r)]
    /\ UNCHANGED <<valuation, rm_vars, engine_vars, calendar_vars, pair_vars>>

NextPricer ==
    \E keywords \in {declared_keywords, _price_option_keywords},
       ticker \in PricedTickers, date \in PricingDates,
       expiration_date \in ExpirationDates, model \in PricingModels :
        Price(keywords, ticker, date, expiration_date, model)

SpecPricer == Init /\ [][NextPricer]_vars

\* ------------------------------------------------------------------------
\* The selection of the expiration made directly, on calendars of trading
\* dates other than the one the day loop runs on
\* ------------------------------------------------------------------------
CalendarDates == {1, 5, 8, 30, 31, 33, 40}
Calendars == {c \in SUBSET CalendarDates : Cardinality(c) >= 2}

SelectExpiration(calendar, date) ==
    /\ LET r == select_expiration_from(calendar, date)
       IN selection' = [calendar |-> calendar, date |-> date, ok |-> r.ok,
                        expiration_date |-> r.date]
    /\ UNCHANGED <<rm_vars, engine_vars, pricer_vars, pair_vars>>

NextExpiry ==
    \E calendar \in Calendars : \E date \in calendar : SelectExpiration(calendar, date)

SpecExpiry == Init /\ [][NextExpiry]_vars

\* ------------------------------------------------------------------------
\* Two risk managers that differ in recovery_percentage only, fed the same
\* dated values; a manager whose update raised is fed no more
\* ------------------------------------------------------------------------
RecoveryPercentages == {0, 50, 100}
PairValues == {850000, 935000, 1000000, 1100000}
PairGaps == {1, 3}

InitPair ==
    /\ \E enabled \in BOOLEAN, pct_a \in RecoveryPercentages, pct_b \in RecoveryPercentages :
          pair = [a |-> Fresh(enabled, pct_a), b |-> Fresh(enabled, pct_b)]
    /\ risk_manager = RiskManagerInit(TRUE)
    /\ current_date = 0
    /\ within_limits = TRUE
    /\ updates = 0
    /\ trading_days_since_breach = 0
    /\ current_cash = initial_cash
    /\ positions = <<>>
    /\ trade_history = <<>>
    /\ portfolio_history = <<>>
    /\ current_portfolio_value = None
    /\ signals = "None"
    /\ aborted = FALSE
    /\ quote = NoQuote
    /\ selection = NoSelection
    /\ valuation = NoValuation

UpdatePair(value, gap) ==
    /\ updates < MaxUpdates
    /\ ~pair.a.raised /\ ~pair.b.raised
    /\ LET date == current_date + gap
       IN /\ pair' = [a |-> set_portfolio_value(pair.a.rm, value, date),
                      b |-> set_portfolio_value(pair.b.rm, value, date)]
          /\ current_date' = date
    /\ updates' = updates + 1
    /\ UNCHANGED <<risk_manager, within_limits, trading_days_since_breach,
                   engine_vars, pricer_vars, calendar_vars>>

NextPair == \E value \in PairValues, gap \in PairGaps : UpdatePair(value, gap)

SpecPair == InitPair /\ [][NextPair]_vars

\* ------------------------------------------------------------------------
\* The binomial tree called directly
\* ------------------------------------------------------------------------
SpotPrices == {216, 432}
StrikePrices == {100, 216, 400, 500}
StepCounts == {1, 2, 3}
UpFactors == {2, 3}
GrowthFactors == {1, 2, 3}
OptionTypes == {"call", "put"}

ValueTree(S, K, steps, u, g, option_type) ==
    /\ valuation' = [S |-> S, K |-> K, steps |-> steps, u |-> u, g |-> g,
                     option_type |-> option_type,
                     price |-> binomial_tree(S, K, steps, u, g, option_type)]
    /\ UNCHANGED <<quote, rm_vars, engine_vars, calendar_vars, pair_vars>>

NextTree ==
    \E S \in SpotPrices, K \in StrikePrices, steps \in StepCounts,
       u \in UpFactors, g \in GrowthFactors, option_type \in OptionTypes :
        ValueTree(S, K, steps, u, g, option_type)

SpecTree == Init /\ [][NextTree]_vars

\* ------------------------------------------------------------------------
\* Properties of the risk manager (checked under SpecRM)
\* ------------------------------------------------------------------------
Updated == updates' = updates + 1
JustBreached == IsHard(risk_manager) /\ risk_manager.max_drawdown_date = current_date

\* C2: with risk limits enabled, a dated update made in NORMAL whose
\* resulting drawdown (peak - value)/peak is strictly above max_drawdown_pct
\* leaves the state HARD_RECOVERY with breach_date = date, breach_value =
\* value and recovery_target_value = value + recovery_pct * (peak - value);
\* a drawdown at or below the limit leaves the state NORMAL.
C2_NormalToHard ==
    [][ (Updated /\ risk_manager.risk_enabled /\ IsNormal(risk_manager)) =>
        LET value == risk_manager'.current_portfolio_value
            peak == risk_manager'.peak_portfolio_value
        IN IF peak > 0 /\ (peak - value) * 100 > max_drawdown_pct * peak
           THEN /\ IsHard(risk_manager')
                /\ within_limits' = FALSE
                /\ risk_manager'.max_drawdown_date = current_date'
                /\ risk_manager'.max_drawdown_date_value = value
                /\ risk_manager'.recovery_target_value =
                      Frac(100 * value + recovery_pct * (peak - value), 100)
           ELSE IsNormal(risk_manager') ]_vars

C2_Witness ==
    /\ JustBreached
    /\ risk_manager.max_drawdown_date_value = 850000
    /\ risk_manager.peak_portfolio_value = 1100000

\* C3: should_force_liquidate() is true after the update on which drawdown
\* first exceeds max_drawdown_pct, and false after every later update while
\* drawdown stays elevated and value stays at or above half the initial
\* capital.
C3_EdgeTriggeredLiquidation ==
    [][ (Updated /\ risk_manager.risk_enabled) =>
        LET crossed == /\ ~FracGtPct(risk_manager.current_drawdown, max_drawdown_pct)
                       /\ FracGtPct(risk_manager'.current_drawdown, max_drawdown_pct)
            elevated == /\ FracGtPct(risk_manager.current_drawdown, max_drawdown_pct)
                        /\ FracGtPct(risk_manager'.current_drawdown, max_drawdown_pct)
                        /\ 2 * risk_manager'.current_portfolio_value
                              >= risk_manager'.initial_portfolio_value
        IN /\ crossed => should_close_all_positions(risk_manager')
           /\ elevated => ~should_close_all_positions(risk_manager') ]_vars

\* C5: after a breach the state is HARD_RECOVERY on each of the first
\* recovery_days - 1 trading days (updates) after the breach and
\* SOFT_RECOVERY, with can_enter_new_trades() true, from the
\* recovery_days-th trading day on, while the value stays below the peak.
C5_CoolingInTradingDays ==
    risk_manager.recovery_mode =>
        IF trading_days_since_breach < recovery_days
        THEN IsHard(risk_manager)
        ELSE IsSoft(risk_manager) /\ can_enter_new_trades(risk_manager, current_date)

C7_StatesExclusive ==
    /\ ~(risk_manager.hard_recovery_mode /\ risk_manager.soft_recovery_mode)
    /\ risk_manager.recovery_mode <=>
          (risk_manager.hard_recovery_mode \/ risk_manager.soft_recovery_mode)

C7_Witness == IsSoft(risk_manager) /\ trading_days_since_breach >= 2

\* C8: with risk limits enabled, update returns false exactly when the state
\* after the call is HARD_RECOVERY, and can_enter_new_trades is false in
\* HARD_RECOVERY and true in SOFT_RECOVERY and NORMAL.
C8_PermissionFollowsState ==
    (risk_manager.risk_enabled /\ updates > 0) =>
        /\ within_limits = ~IsHard(risk_manager)
        /\ can_enter_new_trades(risk_manager, current_date) = ~IsHard(risk_manager)

C8_Witness ==
    /\ IsHard(risk_manager)
    /\ trading_days_since_breach >= 1
    /\ ~within_limits
    /\ ~can_enter_new_trades(risk_manager, current_date)

\* C10 as stated: whenever the value last passed to update is below half
\* the initial capital, should_force_liquidate() is true.
C10_CatastrophicStopAlways ==
    (updates > 0 /\ 2 * risk_manager.current_portfolio_value < initial_cash)
        => should_close_all_positions(risk_manager)

\* C10 amended: with risk limits enabled, whenever the value last passed to
\* update is below half the initial capital, should_force_liquidate() is
\* true in NORMAL, HARD_RECOVERY and SOFT_RECOVERY alike, on every such day.
C10_CatastrophicStopEnabled ==
    (risk_manager.risk_enabled /\ updates > 0
        /\ 2 * risk_manager.current_portfolio_value < initial_cash)
        => should_close_all_positions(risk_manager)

C10_Witness ==
    /\ risk_manager.risk_enabled
    /\ IsSoft(risk_manager)
    /\ trading_days_since_breach >= 1
    /\ 2 * risk_manager.current_portfolio_value < initial_cash
    /\ should_close_all_positions(risk_manager)

\* ------------------------------------------------------------------------
\* Properties of the day-loop (checked under Spec)
\* ------------------------------------------------------------------------
LastSnapshot == portfolio_history[Len(portfolio_history)]
OpenIds == ids_where([i \in 1..Len(positions) |-> IsOpen(positions[i])])
OpenedToday ==
    {i \in 1..Len(trade_history) :
        trade_history[i].trade_type = "open" /\ trade_history[i].date = current_date}

\* C1: every snapshot the day-loop appends has value equal to cash plus the
\* sum of current_value over the positions open when it is recorded.
C1_AccountingIdentity ==
    (Len(portfolio_history) > 0 /\ ~aborted) =>
        LastSnapshot.value = LastSnapshot.cash + open_value(positions, 1)

\* C4: on the day the risk manager enters HARD_RECOVERY every open position
\* is closed with exit_reason "risk_limit" and none is opened, so no
\* position is open when the day's snapshot is recorded.
C4_BreachDayLiquidation ==
    (updates > 0 /\ JustBreached) =>
        /\ OpenIds = <<>>
        /\ OpenedToday = {}

\* C9: on a day on which the risk manager is in HARD_RECOVERY after the
\* update, can_enter_new_trades is false, size_position returns 0,
\* check_portfolio_risk returns false, no signal is requested and no trade
\* record of type "open" is appended.
C9_NoEntryInHardRecovery ==
    (updates > 0 /\ IsHard(risk_manager)) =>
        /\ ~can_enter_new_trades(risk_manager, current_date)
        /\ \A price \in OptionPrices :
              calculate_position_sizing(risk_manager, price,
                                        Frac(current_portfolio_value, 1)) = 0
        /\ \A value \in {-1000, 0, 1000} :
              ~check_portfolio_risk(risk_manager, value, current_portfolio_value).ret
        /\ signals = "None"
        /\ OpenedToday = {}

C9_Witness ==
    /\ updates > 0
    /\ IsHard(risk_manager)
    /\ OpenIds # <<>>
    /\ signals = "None"
    /\ ~should_close_all_positions(risk_manager)

\* ------------------------------------------------------------------------
\* Properties of the risk manager's arithmetic (checked under SpecRM)
\* ------------------------------------------------------------------------
\* C11: after every update the drawdown is max(0, (peak - value) / peak) and
\* lies between 0 and 1.
C11_DrawdownRange ==
    updates > 0 =>
        LET dd == risk_manager.current_drawdown
            peak == risk_manager.peak_portfolio_value
            value == risk_manager.current_portfolio_value
        IN /\ peak > 0 =>
                \/ dd.num = 0 /\ Max(0, peak - value) = 0
                \/ dd.den = peak /\ dd.num = Max(0, peak - value)
           /\ 0 <= dd.num
           /\ dd.num <= dd.den

C14_MinimumSize ==
    (updates > 0 /\ risk_manager.risk_enabled /\ ~IsHard(risk_manager)) =>
        \A price \in SizingPrices, value \in AllocatableValues :
            calculate_position_sizing(risk_manager, price, Frac(value, 1)) >= 1

\* the manager with the same configuration in the NORMAL state
NormalOf(rm) ==
    [rm EXCEPT !.recovery_mode = FALSE, !.hard_recovery_mode = FALSE,
               !.soft_recovery_mode = FALSE]
\* floor(max_position_risk_pct x value / (price x 100)), price in cents
EqualRiskCount(price, value) == (max_position_risk_pct * value) \div (100 * price)

\* C15 as stated: equal_risk and any unrecognised method return
\* floor(max_position_risk_pct x value / (price x 100)), kelly returns half
\* of the equal_risk count, and the SOFT_RECOVERY result is the NORMAL
\* result times recovery_scaling_factor.
C15_SizingFormula ==
    (updates > 0 /\ risk_manager.risk_enabled /\ ~IsHard(risk_manager)) =>
        \A price \in SizingPrices, value \in AllocatableValues :
            LET here == calculate_position_sizing(risk_manager, price, Frac(value, 1))
                normal == calculate_position_sizing(NormalOf(risk_manager), price,
                                                    Frac(value, 1))
                equal_risk == calculate_position_sizing(
                    [NormalOf(risk_manager) EXCEPT !.position_sizing_method = "equal_risk"],
                    price, Frac(value, 1))
            IN /\ IsNormal(risk_manager) =>
                    IF risk_manager.position_sizing_method = "kelly"
                    THEN 2 * here = equal_risk
                    ELSE here = EqualRiskCount(price, value)
               /\ IsSoft(risk_manager) =>
                    100 * here = recovery_scaling_factor * normal

\* C15 amended: in NORMAL equal_risk and any unrecognised method return
\* max(1, floor(max_position_risk_pct x value / (price x 100))) and kelly
\* returns max(1, floor(half of that quotient)); in SOFT_RECOVERY the result
\* is floor(NORMAL result x recovery_scaling_factor).
C15_SizingFormulaTruncated ==
    (updates > 0 /\ risk_manager.risk_enabled /\ ~IsHard(risk_manager)) =>
        \A price \in SizingPrices, value \in AllocatableValues :
            LET here == calculate_position_sizing(risk_manager, price, Frac(value, 1))
                normal == calculate_position_sizing(NormalOf(risk_manager), price,
                                                    Frac(value, 1))
            IN /\ IsNormal(risk_manager) =>
                    IF risk_manager.position_sizing_method = "kelly"
                    THEN here = Max(1, (max_position_risk_pct * value) \div (200 * price))
                    ELSE here = Max(1, EqualRiskCount(price, value))
               /\ IsSoft(risk_manager) =>
                    here = (recovery_scaling_factor * normal) \div 100

C15_Witness ==
    /\ risk_manager.risk_enabled
    /\ IsSoft(risk_manager)
    /\ risk_manager.position_sizing_method = "kelly"
    /\ calculate_position_sizing(risk_manager, 100, Frac(1000000, 1)) = 125
    /\ calculate_position_sizing(risk_manager, 60000, Frac(1000000, 1)) = 0

\* C16: with risk limits enabled check_trade_balance is false if either
\* side is zero, false in HARD_RECOVERY and in SOFT_RECOVERY, and otherwise
\* false exactly when long / |short| > max_long_short_ratio; with ratio 1.1
\* and short 100,000 it is true for long 95,000 and false for long 120,000.
C16_TradeBalance ==
    (updates > 0 /\ risk_manager.risk_enabled) =>
        /\ \A l \in LongExposures, sh \in ShortExposures :
              check_trade_balance(risk_manager, l, sh) =
                  IF l = 0 \/ sh = 0 THEN FALSE
                  ELSE IF ~IsNormal(risk_manager) THEN FALSE
                  ELSE ~(l * 100 > max_long_short_ratio * Abs(sh))
        /\ IsNormal(risk_manager) =>
              /\ check_trade_balance(risk_manager, 95000, 100000)
              /\ ~check_trade_balance(risk_manager, 120000, 100000)

C16_Witness ==
    /\ updates > 0
    /\ risk_manager.risk_enabled
    /\ IsNormal(risk_manager)
    /\ risk_manager.max_drawdown_date # None
    /\ check_trade_balance(risk_manager, 110000, -100000)
    /\ ~check_trade_balance(risk_manager, 120000, -100000)

\* ------------------------------------------------------------------------
\* Properties of the risk gates on the positions and trades of a run
\* (checked under Spec)
\* ------------------------------------------------------------------------
\* the position has lost more than stop_loss_pct of |entry_value|
LostMoreThanStop(position) ==
    (position.current_value - position.entry_value) * 100
        < -stop_loss_pct * Abs(position.entry_value)

\* C13: with risk limits enabled check_stop_loss is true exactly when the
\* position has lost more than stop_loss_pct of |entry_value|, long or
\* short: a long 10000 -> 8000 triggers, a short -10000 -> -12000 triggers,
\* and no position of the run that moved in its favour triggers.
C13_SignAwareStopLoss ==
    risk_manager.risk_enabled =>
        /\ check_position_stop_loss(risk_manager,
               [entry_value |-> 10000, current_value |-> 8000])
        /\ check_position_stop_loss(risk_manager,
               [entry_value |-> -10000, current_value |-> -12000])
        /\ \A i \in 1..Len(positions) :
              check_position_stop_loss(risk_manager, positions[i])
                  = LostMoreThanStop(positions[i])

\* the cash the trade log accounts for: minus the value of each open record,
\* plus the value of each close record, from record i on
RECURSIVE LoggedCash(_, _)
LoggedCash(trades, i) ==
    IF i > Len(trades) THEN 0
    ELSE (IF trades[i].trade_type = "open" THEN -trades[i].value
          ELSE trades[i].value) + LoggedCash(trades, i + 1)

\* C17: at every point of a run cash is initial_cash minus the values of the
\* open records plus the values of the close records; an entry makes no
\* other cash adjustment.
C17_CashReconciles ==
    current_cash = risk_manager.initial_portfolio_value + LoggedCash(trade_history, 1)

\* the leg is on the short side of its trade: the index leg of a dispersion
\* trade, a component leg of a reverse dispersion trade
ShortLeg(position) ==
    (position.strategy = "dispersion") = (position.ticker = index_ticker)
\* the record of a settlement at expiration carries no strategy
IsSettlement(trade) ==
    trade.trade_type = "close" /\ trade.option_details.strategy = "None"

\* C18: every position ever created has entry_value = quantity x entry_price
\* x 100 with a non-zero quantity, positive for a long leg and negative for a
\* short leg, and every trade record (open, market close, expiration) has
\* value = quantity x price x 100.  (A price is held in cents.)
C18_ValueIdentities ==
    /\ \A i \in 1..Len(positions) :
          /\ positions[i].entry_value = positions[i].quantity * positions[i].entry_price
          /\ positions[i].quantity # 0
          /\ (positions[i].quantity < 0) = ShortLeg(positions[i])
    /\ \A i \in 1..Len(trade_history) :
          trade_history[i].value = trade_history[i].quantity * trade_history[i].price

C18_Witness ==
    /\ \E i \in 1..Len(trade_history) :
          IsSettlement(trade_history[i]) /\ trade_history[i].value < 0
    /\ \E i \in 1..Len(trade_history) :
          trade_history[i].trade_type = "close" /\ ~IsSettlement(trade_history[i])
    /\ \E i \in 1..Len(positions) : positions[i].strategy = "reverse_dispersion"

\* old is a prefix of new
IsPrefix(old, new) ==
    Len(old) <= Len(new) /\ SubSeq(new, 1, Len(old)) = old
\* the positions opened, and the positions closed, by the step
OpenedByStep == {i \in 1..Len(positions') : i > Len(positions)}
ClosedByStep ==
    {i \in 1..Len(positions') :
        /\ positions'[i].status = "closed"
        /\ i > Len(positions) \/ positions[i].status = "open"}
NewTrades(type) ==
    {i \in 1..Len(trade_history') :
        i > Len(trade_history) /\ trade_history'[i].trade_type = type}

\* C19: a trading day appends exactly one trade record per position it opens
\* and one per position it closes, and exactly one snapshot, dated that day
\* and later than every earlier snapshot; no earlier trade record or
\* snapshot is modified or removed.
C19_AppendOnly ==
    [][ Updated =>
        /\ IsPrefix(trade_history, trade_history')
        /\ Cardinality(NewTrades("open")) = Cardinality(OpenedByStep)
        /\ Cardinality(NewTrades("close")) = Cardinality(ClosedByStep)
        /\ \A i \in NewTrades("open") \cup NewTrades("close") :
              trade_history'[i].date = current_date'
        /\ ~aborted' =>
              /\ IsPrefix(portfolio_history, portfolio_history')
              /\ Len(portfolio_history') = Len(portfolio_history) + 1
              /\ portfolio_history'[Len(portfolio_history')].date = current_date'
              /\ \A i \in 1..Len(portfolio_history) :
                    portfolio_history[i].date < current_date' ]_vars

C19_Witness ==
    /\ Len(portfolio_history) >= 3
    /\ \E i \in 1..Len(trade_history) :
          trade_history[i].trade_type = "close" /\ trade_history[i].date = current_date
    /\ OpenedToday # {}
    /\ \E i \in 1..Len(trade_history) : trade_history[i].date < current_date

\* the position was closed by the settlement of expirations: on or after its
\* expiration date and not by a stop-loss or a liquidation
Settled(position) ==
    /\ position.status = "closed"
    /\ position.exit_date >= position.expiration_date
    /\ position.exit_reason \notin {"stop_loss", "risk_limit"}
IntrinsicValue(position, date) ==
    IF position.option_type = "call"
    THEN Max(0, Adjusted(position.ticker, date) - 100 * position.strike_price)
    ELSE Max(0, 100 * position.strike_price - Adjusted(position.ticker, date))

\* C20: a position open when expirations are processed with expiration_date
\* <= current_date is closed at intrinsic value, for intrinsic x quantity x
\* 100, with exit_reason "expired"; no open option with expiration_date <=
\* current_date remains at the end of the day.
C20_ExpirationSettlement ==
    updates > 0 =>
        \A i \in 1..Len(positions) :
            /\ positions[i].status = "open" => positions[i].expiration_date > current_date
            /\ Settled(positions[i]) =>
                  /\ positions[i].exit_price =
                        IntrinsicValue(positions[i], positions[i].exit_date)
                  /\ positions[i].exit_value =
                        positions[i].exit_price * positions[i].quantity
                  /\ positions[i].exit_reason = "expired"

\* ------------------------------------------------------------------------
\* Properties of pricing at the call site (checked under Spec and SpecPricer)
\* ------------------------------------------------------------------------
\* the request that price_options can compute: a price file with 30 rows up
\* to the date, an expiration after the date, and a model that it knows
Priceable(ticker, date, expiration_date, model) ==
    price_options(ticker, date, expiration_date, model).raised = "None"

\* C21: after the revaluation of a day every open option whose underlying
\* has enough price history, whose expiration is after the current date and
\* whose configured model is valid is valued at the price that the pricing
\* engine computes for that model, times quantity times 100; the fallback
\* constant stands only where that computation fails.
C21_RevaluationUsesPricer ==
    updates > 0 =>
        \A i \in 1..Len(positions) :
            (/\ positions[i].status = "open"
             /\ positions[i].entry_date < current_date
             /\ Priceable(positions[i].ticker, current_date,
                          positions[i].expiration_date, pricing_model))
            => positions[i].current_value =
                  positions[i].quantity
                  * price_options(positions[i].ticker, current_date,
                                  positions[i].expiration_date, pricing_model).price

\* the pricing request of the revaluation raises at the call site
PricingFails(position, date) ==
    call_price_options(_price_option_keywords, position.ticker, date,
                       position.expiration_date, pricing_model).raised # "None"

\* the positions as the claim has them after the revaluation of a date: the
\* previous value where the pricing failed, the computed price elsewhere
Retained(pos, date) ==
    [i \in 1..Len(pos) |->
        IF pos[i].status = "open" /\ ~PricingFails(pos[i], date)
        THEN [pos[i] EXCEPT !.current_value =
                 pos[i].quantity
                 * price_options(pos[i].ticker, date, pos[i].expiration_date,
                                 pricing_model).price]
        ELSE pos[i]]

C23_DegradedPricing ==
    quote # NoQuote =>
        /\ (quote.raised # "None" \/ quote.price \in {NaN, Infinity} \/ quote.price <= 0)
              => quote.used = FallbackPrice
        /\ (quote.raised = "None" /\ quote.price \notin {NaN, Infinity} /\ quote.price > 0)
              => quote.used = quote.price
        /\ quote.used > 0
        /\ quote.used \notin {NaN, Infinity}

C23_Witness ==
    /\ quote.raised = "None"
    /\ quote.price = NaN
    /\ quote.used = FallbackPrice

\* ------------------------------------------------------------------------
\* Properties of the order of the steps of a day (checked under Spec)
\* ------------------------------------------------------------------------
\* the position was open with expiration_date <= the date on which it was
\* closed by the liquidation of the risk manager
LiquidatedAtExpiry(position) ==
    /\ position.type = "option"
    /\ position.status = "closed"
    /\ position.exit_date >= position.expiration_date
    /\ position.exit_reason = "risk_limit"

\* C24: within a day expirations are settled before the forced liquidation:
\* an option that is open with expiration_date <= current_date on a day on
\* which should_close_all_positions is true is settled at intrinsic value,
\* not closed at the market price with exit_reason "risk_limit".
C24_StepOrder ==
    \A i \in 1..Len(positions) :
        (/\ positions[i].status = "closed"
         /\ positions[i].exit_date >= positions[i].expiration_date
         /\ positions[i].exit_reason # "stop_loss")
        => /\ ~LiquidatedAtExpiry(positions[i])
           /\ positions[i].exit_price =
                 IntrinsicValue(positions[i], positions[i].exit_date)

\* ------------------------------------------------------------------------
\* Properties of the dispatch of signals (checked under Spec)
\* ------------------------------------------------------------------------
StrategyTags == {"dispersion", "reverse_dispersion"}

\* C25: when an EXIT signal is executed, every open position of the active
\* strategy (dispersion or reverse_dispersion) is closed, so that after the
\* dispatch no position of either strategy tag is open.
C25_ExitClosesActiveStrategy ==
    signals = "EXIT" =>
        \A i \in 1..Len(positions) :
            positions[i].strategy \in StrategyTags => positions[i].status # "open"

\* ------------------------------------------------------------------------
\* Properties of the selection of the expiration (checked under SpecExpiry)
\* ------------------------------------------------------------------------
Distance(a, b) == IF a >= b THEN a - b ELSE b - a

\* the calendar dates at least 7 calendar days after the entry date
Eligible(calendar, date) == {d \in calendar : d - date >= 7}

\* C26: the expiration chosen for a trade entered on date t is the calendar
\* date d with d - t >= 7 that minimises |d - (t + 30)| over all such dates.
C26_ClosestExpiry ==
    selection.date # None =>
        LET eligible == Eligible(selection.calendar, selection.date)
        IN /\ selection.ok <=> eligible # {}
           /\ selection.ok =>
                 /\ selection.expiration_date \in eligible
                 /\ \A d \in eligible :
                       Distance(selection.expiration_date, selection.date + 30)
                           <= Distance(d, selection.date + 30)

\* ------------------------------------------------------------------------
\* Properties of the legs of an entry (checked under Spec)
\* ------------------------------------------------------------------------
ComponentSet == {component_tickers[i] : i \in 1..Len(component_tickers)}

\* the positions opened on the current date
PositionsOpenedToday == {i \in 1..Len(positions) : positions[i].entry_date = current_date}

\* the exposure of the index legs bought on the current date
LongIndexExposure ==
    LET ids == ids_where([i \in 1..Len(positions) |->
                   /\ positions[i].entry_date = current_date
                   /\ positions[i].ticker = index_ticker])
    IN exposure_of(positions, ids)

\* the contracts of one component leg at the given price when the budget of
\* the components is long_exposure / long_short_balance_factor: the share
\* of the ticker, halved between call and put, at least 1, and no more than
\* the risk manager sizes for the ticker's share of the portfolio
BudgetedContracts(ticker, price) ==
    LET n == LongIndexExposure * 100 * component_weights[ticker]
        d == long_short_balance_factor * total_weight * 2 * price
        c == n \div d
        target == IF c = 0 /\ n > 0 THEN 1 ELSE c
        sized == calculate_position_sizing(risk_manager, price,
                     Frac(current_portfolio_value * component_weights[ticker],
                          total_weight))
    IN Min(target, sized)

\* C27: ENTER_DISPERSION opens only short index positions and only long
\* component positions, all tagged dispersion; ENTER_REVERSE_DISPERSION opens
\* only long index positions and only short component positions, all tagged
\* reverse_dispersion, the components being sized from the budget
\* long_exposure / long_short_balance_factor.
C27_LegDirections ==
    /\ \A i \in 1..Len(positions) :
          /\ positions[i].strategy \in StrategyTags
          /\ positions[i].ticker \in ComponentSet \cup {index_ticker}
          /\ positions[i].strategy = "dispersion" =>
                (IF positions[i].ticker = index_ticker
                 THEN positions[i].quantity < 0 ELSE positions[i].quantity > 0)
          /\ positions[i].strategy = "reverse_dispersion" =>
                (IF positions[i].ticker = index_ticker
                 THEN positions[i].quantity > 0 ELSE positions[i].quantity < 0)
    /\ \A i \in PositionsOpenedToday :
          /\ signals \in {"ENTER_DISPERSION", "ENTER_REVERSE_DISPERSION"}
          /\ positions[i].strategy =
                (IF signals = "ENTER_DISPERSION" THEN "dispersion"
                 ELSE "reverse_dispersion")
          /\ (signals = "ENTER_REVERSE_DISPERSION"
              /\ positions[i].ticker # index_ticker) =>
                -positions[i].quantity =
                    BudgetedContracts(positions[i].ticker, positions[i].entry_price)

\* a reverse entry that opened index and component legs, in an account that
\* also holds the component legs of a dispersion entry
C27_Witness ==
    /\ signals = "ENTER_REVERSE_DISPERSION"
    /\ \E i, j \in PositionsOpenedToday :
          /\ positions[i].ticker = index_ticker /\ positions[i].quantity > 0
          /\ positions[j].ticker # index_ticker /\ positions[j].quantity < 0
    /\ \E i \in 1..Len(positions) :
          positions[i].strategy = "dispersion" /\ positions[i].ticker # index_ticker

\* ------------------------------------------------------------------------
\* Properties of failures during an entry (checked under Spec)
\* ------------------------------------------------------------------------
EntrySignals == {"ENTER_DISPERSION", "ENTER_REVERSE_DISPERSION"}

\* C28: the trade-balance check is informational: on a day on which an entry
\* opened legs, whether or not check_trade_balance passes (one side's
\* exposure may be zero, the risk manager may be in SOFT_RECOVERY), the legs
\* stay open, the day is not aborted and its snapshot is recorded.
C28_BalanceCheckInformational ==
    (signals \in EntrySignals /\ PositionsOpenedToday # {}) =>
        /\ ~aborted
        /\ Len(portfolio_history) = updates
        /\ LastSnapshot.date = current_date
        /\ \A i \in PositionsOpenedToday : positions[i].status = "open"

\* the components whose body of the loop raises on the current date
RaisingToday == {t \in ComponentSet : _get_price_on_date(t, current_date) = Infinity}

\* an entry of the current date reached the loop over the components: it
\* opened an index leg
ReachedComponents ==
    /\ signals \in EntrySignals
    /\ \E i \in PositionsOpenedToday : positions[i].ticker = index_ticker

\* C29: an exception raised while pricing or trading one component ticker
\* during an entry skips only that ticker: no leg of it is opened, every
\* other component is still processed (in NORMAL state each gets its legs),
\* and the day completes with its snapshot recorded.
C29_PerTickerIsolation ==
    (ReachedComponents /\ RaisingToday # {}) =>
        /\ \A i \in PositionsOpenedToday : positions[i].ticker \notin RaisingToday
        /\ IsNormal(risk_manager) =>
              \A t \in ComponentSet \ RaisingToday :
                  \E i \in PositionsOpenedToday : positions[i].ticker = t
        /\ ~aborted
        /\ Len(portfolio_history) = updates
        /\ LastSnapshot.date = current_date

\* ------------------------------------------------------------------------
\* Properties of the preconditions of pricing (checked under SpecPricer)
\* ------------------------------------------------------------------------
\* a request made with the keywords that price_options declares
DirectQuote == quote.ticker # "None" /\ quote.keywords = declared_keywords

\* the failures of the pricer: the exception raised and what its message says
DataNotFound == quote.raised = "FileNotFoundError"
InsufficientHistory ==
    quote.raised = "ValueError" /\ quote.message = "Not enough historical data"
InvalidExpiry ==
    quote.raised = "ValueError"
    /\ quote.message = "Expiration date must be after current date"
InvalidModel ==
    quote.raised = "ValueError"
    /\ quote.message = "Model must be either 'black_scholes' or 'binomial'"

\* the preconditions, stated on the request itself
NoSeries == ~data_file_exists(quote.ticker)
Observations == rows_up_to(quote.ticker, quote.current_date)
ShortHistory == ~NoSeries /\ Observations < 30
ExpiryNotAfter == quote.expiration_date <= quote.current_date
OtherModel == quote.model \notin {"black_scholes", "Black_Scholes", "binomial"}

\* C30: pricing fails with DataNotFound when the ticker has no price series,
\* with InsufficientHistory when fewer than 30 observations exist on or
\* before the pricing date, with InvalidExpiry whenever the expiration is not
\* after the pricing date, and with InvalidModel for any model name other
\* than the two models; in each of these cases no price is returned.
C30_PricingPreconditions ==
    DirectQuote =>
        /\ NoSeries => DataNotFound
        /\ ShortHistory => InsufficientHistory
        /\ ExpiryNotAfter => InvalidExpiry
        /\ OtherModel => InvalidModel
        /\ (NoSeries \/ ShortHistory \/ ExpiryNotAfter \/ OtherModel) =>
              quote.price = None

\* C30 as the code has it: the preconditions are checked in the order
\* series, history, expiration, model, and the first that fails decides the
\* failure; the model name is compared without regard to case; a price is
\* returned exactly when none fails.
C30_PricingPreconditionsInOrder ==
    DirectQuote =>
        /\ NoSeries => DataNotFound
        /\ ShortHistory => InsufficientHistory
        /\ (~NoSeries /\ ~ShortHistory /\ ExpiryNotAfter) => InvalidExpiry
        /\ (~NoSeries /\ ~ShortHistory /\ ~ExpiryNotAfter /\ OtherModel) => InvalidModel
        /\ (NoSeries \/ ShortHistory \/ ExpiryNotAfter \/ OtherModel) <=>
              quote.raised # "None"
        /\ quote.raised # "None" => quote.price = None

\* an expiration not after the pricing date is reported for a ticker with
\* enough history, although the model name is not known either
C30_Witness ==
    /\ DirectQuote
    /\ ~NoSeries /\ ~ShortHistory /\ ExpiryNotAfter /\ OtherModel
    /\ InvalidExpiry
    /\ quote.price = None

\* ------------------------------------------------------------------------
\* Properties of the binomial tree (checked under SpecTree)
\* ------------------------------------------------------------------------
RootIntrinsic == exercise_value(valuation.S, valuation.K, valuation.option_type)

\* C31: every node of the backward induction takes the larger of the
\* discounted expectation and the value of immediate exercise, so for every
\* step count >= 1 the price returned is not below the intrinsic value at
\* the root: max(0, S - K) for a call, max(0, K - S) for a put.
C31_EarlyExercise ==
    (valuation.steps # None /\ valuation.steps >= 1) =>
        valuation.price.num >= RootIntrinsic * valuation.price.den

\* a put in the money whose price is exactly its intrinsic value although
\* the rate is positive: early exercise decides the root
C31_Witness ==
    /\ valuation.steps = 3
    /\ valuation.option_type = "put"
    /\ valuation.g > 1
    /\ RootIntrinsic > 0
    /\ valuation.price.num = RootIntrinsic * valuation.price.den

\* ------------------------------------------------------------------------
\* Properties of two risk managers compared (checked under SpecPair)
\* ------------------------------------------------------------------------
\* the state and the answers of a manager, leaving out recovery_percentage
\* and recovery_target_value
Observable(m) ==
    [raised |-> m.raised,
     ret |-> m.ret,
     recovery_mode |-> m.rm.recovery_mode,
     hard_recovery_mode |-> m.rm.hard_recovery_mode,
     soft_recovery_mode |-> m.rm.soft_recovery_mode,
     max_drawdown_hit |-> m.rm.max_drawdown_hit,
     max_drawdown_date |-> m.rm.max_drawdown_date,
     should_close_all_positions |->
         IF m.rm.current_portfolio_value = None THEN FALSE
         ELSE should_close_all_positions(m.rm),
     can_enter_new_trades |-> can_enter_new_trades(m.rm, current_date),
     sizing |-> [price \in OptionPrices |->
                    calculate_position_sizing(m.rm, price, Frac(initial_cash, 1))]]

\* C32: recovery_target_value is diagnostic only: two risk managers that
\* differ in recovery_percentage only and are fed the same dated values go
\* through the same states and give the same results from the update,
\* should_close_all_positions, can_enter_new_trades and the sizing, for
\* every value of recovery_percentage.
C32_TargetDiagnosticOnly ==
    Observable(pair.a) = Observable(pair.b)

\* the value of the update that has just been made reaches the recovery
\* target set at the breach
TargetReached ==
    100 * risk_manager'.current_portfolio_value >= risk_manager.recovery_target_value.num

\* the cooling period is over on the date of the update being made
CoolingOver ==
    current_date' - risk_manager.max_drawdown_date >= recovery_days

\* C33: after the cooling period of recovery_days, an update whose value
\* has recovered recovery_percentage of the breach drawdown
\* (value >= recovery_target_value) leaves recovery mode and resets the
\* watermark to that value, so that later values above it are new peaks.
C33_ExitAtTargetResetsWatermark ==
    [][ (Updated /\ risk_manager.recovery_mode /\ CoolingOver /\ TargetReached) =>
        /\ IsNormal(risk_manager')
        /\ risk_manager'.peak_portfolio_value = risk_manager'.current_portfolio_value
      ]_vars

\* the dates of the run's trading calendar
TradingDates == {trading_dates[i] : i \in 1..Len(trading_dates)}

\* the day in progress after its positions are revalued and its stops
\* applied, before expired positions are settled and the signal is executed
Revalued ==
    _update_position_values(Ledger(current_cash, positions, trade_history),
                            risk_manager, current_date')

\* C34: every position opened by an entry expires on a date of the trading
\* calendar at least 7 calendar days after its entry date; on a day from
\* which the calendar holds no such date an entry signal opens no position,
\* appends no trade record and leaves cash unchanged.
C34_ExpiryAheadOnCalendar ==
    [][ Updated =>
        /\ \A i \in 1..Len(positions') :
              /\ positions'[i].expiration_date \in TradingDates
              /\ positions'[i].expiration_date - positions'[i].entry_date >= 7
        /\ (signals' \in EntrySignals /\ Eligible(TradingDates, current_date') = {}) =>
              \E u \in {Revalued} :
              \E before \in {_process_expirations(u.L, current_date')} :
                 /\ positions' = before.positions
                 /\ trade_history' = before.trade_history
                 /\ current_cash' = before.current_cash
      ]_vars

\* an entry signal on a day with nothing 7 days ahead, in a run that has
\* opened positions earlier and one of them with the last usable expiry
C34_Witness ==
    /\ signals \in EntrySignals
    /\ ~aborted
    /\ Eligible(TradingDates, current_date) = {}
    /\ PositionsOpenedToday = {}
    /\ \E i \in 1..Len(positions) :
          positions[i].expiration_date - positions[i].entry_date = 7

\* quantity x exit price x 100, in dollars, summed over the positions that
\* were open in before and are closed in after
RECURSIVE SignedProceeds(_, _, _)
SignedProceeds(before, after, i) ==
    IF i > Len(before) THEN 0
    ELSE (IF before[i].status = "open" /\ after[i].status = "closed"
          THEN after[i].quantity * after[i].exit_price ELSE 0)
         + SignedProceeds(before, after, i + 1)

\* C35: a close at market price p changes cash by quantity x p x 100 with
\* the position's signed quantity, the convention of the settlement at
\* expiration: the positions closed by an executed EXIT add the sum of
\* quantity x exit price x 100 to cash, so that selling a long position
\* adds cash and covering a short one removes it.
C35_MarketCloseCash ==
    [][ (Updated /\ signals' = "EXIT") =>
        \E u \in {Revalued} :
        \E before \in {_process_expirations(u.L, current_date')} :
           current_cash' - before.current_cash =
               SignedProceeds(before.positions, positions', 1)
      ]_vars

\* ------------------------------------------------------------------------
\* Properties of the recovery episode (checked under SpecRM)
\* ------------------------------------------------------------------------
\* what the breach recorded
BreachRecord(rm) ==
    <<rm.max_drawdown_date, rm.max_drawdown_date_value, rm.recovery_target_value>>

\* C36: a breach is not re-triggered during recovery: an update made in
\* HARD_RECOVERY or SOFT_RECOVERY never moves SOFT_RECOVERY back to
\* HARD_RECOVERY, however deep the drawdown, and leaves breach_date,
\* breach_value and recovery_target_value as the breach set them.
C36_NoBreachInRecovery ==
    [][ (Updated /\ ~IsNormal(risk_manager)) =>
        /\ IsSoft(risk_manager) => ~IsHard(risk_manager')
        /\ BreachRecord(risk_manager') = BreachRecord(risk_manager)
      ]_vars

\* in SOFT_RECOVERY with a value far below the value of the breach
C36_Witness ==
    /\ IsSoft(risk_manager)
    /\ trading_days_since_breach >= 2
    /\ risk_manager.current_portfolio_value < risk_manager.max_drawdown_date_value
    /\ FracGtPct(risk_manager.current_drawdown, 2 * max_drawdown_pct)

\* C37: with risk limits enabled and every update dated, after each update
\* NORMAL implies current_drawdown <= max_drawdown_pct, and max_drawdown_hit
\* is set exactly when the state is HARD_RECOVERY or SOFT_RECOVERY.
C37_FlagFollowsState ==
    (risk_manager.risk_enabled /\ updates > 0) =>
        /\ IsNormal(risk_manager) =>
              ~FracGtPct(risk_manager.current_drawdown, max_drawdown_pct)
        /\ risk_manager.max_drawdown_hit <=>
              (IsHard(risk_manager) \/ IsSoft(risk_manager))

\* back in NORMAL after a recovery, with the flag cleared, and below the
\* mark again without a new breach
C37_Witness ==
    /\ risk_manager.risk_enabled
    /\ IsNormal(risk_manager)
    /\ risk_manager.max_drawdown_date # None
    /\ ~risk_manager.max_drawdown_hit
    /\ risk_manager.current_drawdown.num > 0

\* ------------------------------------------------------------------------
\* Properties of the life of a position (checked under Spec)
\* ------------------------------------------------------------------------
ClosedPositions(pos) == {i \in 1..Len(pos) : pos[i].status = "closed"}
CloseRecords(trades) == {i \in 1..Len(trades) : trades[i].trade_type = "close"}

\* C38: a position is closed at most once: once closed its record (status,
\* current value, exit date, price, value and reason) is never written
\* again by a revaluation, a stop, a liquidation, a settlement or an exit;
\* the history holds one close record per closed position; and a close
\* request for a closed position changes neither cash nor the history.
C38_ClosedAtMostOnce ==
    [][ Updated =>
        /\ \A i \in ClosedPositions(positions) : positions'[i] = positions[i]
        /\ Cardinality(CloseRecords(trade_history')) =
              Cardinality(ClosedPositions(positions'))
        /\ \E L \in {Ledger(current_cash', positions', trade_history')} :
           \A i \in ClosedPositions(positions') :
              _close_position(L, i, "manual", current_date') = L
      ]_vars

\* a position liquidated on its expiration day, still closed for that reason
\* on a later day: the settlement has passed over it
C38_Witness ==
    \E i \in 1..Len(positions) :
       /\ LiquidatedAtExpiry(positions[i])
       /\ positions[i].exit_date = positions[i].expiration_date
       /\ current_date > positions[i].exit_date

OpenPositions == {i \in 1..Len(positions) : positions[i].status = "open"}
RunComplete == updates = Len(trading_dates) /\ ~aborted

\* C39: every position is eventually closed: a run either stops on a fatal
\* error or processes its last trading day, and by then every position
\* opened during the run is closed; no position is opened on a day from
\* which no calendar date at least 7 days ahead exists.
C39_EventuallyClosed ==
    /\ <>(aborted \/ (RunComplete /\ OpenPositions = {}))
    /\ [](Eligible(TradingDates, current_date) = {} => PositionsOpenedToday = {})

\* a complete run whose last day settled a position and was asked to enter
C39_Witness ==
    /\ RunComplete
    /\ OpenPositions = {}
    /\ signals \in EntrySignals
    /\ \E i \in 1..Len(positions) :
          /\ positions[i].exit_date = current_date
          /\ positions[i].expiration_date = current_date

\* ------------------------------------------------------------------------
\* Properties of the disabled limits (checked under SpecRM)
\* ------------------------------------------------------------------------
\* C40: with risk_limits_enabled false, after every sequence of portfolio
\* values the state is NORMAL, should_close_all_positions and the stop-loss
\* check return false, check_portfolio_risk and check_trade_balance return
\* true, and can_enter_new_trades returns true.
C40_DisabledLimitsNeverRestrict ==
    (~risk_manager.risk_enabled /\ updates > 0) =>
        /\ IsNormal(risk_manager)
        /\ ~should_close_all_positions(risk_manager)
        /\ ~check_position_stop_loss(risk_manager,
               [entry_value |-> 10000, current_value |-> 8000])
        /\ \A value \in {-1000, 0, 1000} :
              check_portfolio_risk(risk_manager, value,
                                   risk_manager.current_portfolio_value).ret
        /\ \A long \in LongExposures, short \in ShortExposures :
              check_trade_balance(risk_manager, long, short)
        /\ can_enter_new_trades(risk_manager, current_date)
====
